---- MODULE Spec2Model ----
(***************************************************************************)
(* Model of the mood-tracking engine of irc-analysis.py:                   *)
(*   DatabaseManager  (SQLite tables preferences and sentiment_history),   *)
(*   SentimentAnalyzer.analyze_sentiment,                                  *)
(*   MoodAwareAI      (analyze_message, latest_message, preferences),      *)
(*   MoodCheckBot     (the self-rescheduling threading.Timer tick).        *)
(*                                                                         *)
(* Encodings.  Polarities are integers in hundredths (0.1 is 10).  Python  *)
(* None is the empty tuple.  A Python/SQLite value whose type matters is a *)
(* record [t |-> type, v |-> text of the value].                           *)
(***************************************************************************)
EXTENDS Integers, Sequences, FiniteSets, TLC

\* ---------------------------------------------------------------- bounds
MaxHistory == 2          \* rows of sentiment_history the model lets exist
MaxSent    == 2          \* periodic messages the model lets be sent

Threads == {1, 2}        \* threads that call into MoodAwareAI
TickIds == {1, 2}        \* timer threads that may run at one time

\* ------------------------------------------------------- program constants
Period       == 300      \* threading.Timer(300, ...)
PosThreshold == 10       \* polarity > 0.1
NegThreshold == -10      \* polarity < -0.1

None == <<>>

\* ------------------------------------------------------------ value domain
PyStr(s)  == [t |-> "str",  v |-> s]
PyInt(s)  == [t |-> "int",  v |-> s]
PyBool(s) == [t |-> "bool", v |-> s]
PyReal(s) == [t |-> "float", v |-> s]

\* Something that is not a str, passed as the message (TextBlob rejects it).
NonText == "<not-a-str>"
Texts   == {"I love this!", "I hate this"}
Nicks   == {PyStr("alice"), PyStr("bob")}

VARIABLES
  pc,              \* pc[t]: the line thread t is about to execute
  frame,           \* frame[t]: arguments and locals of the call thread t is in
  result,          \* result[t]: what the last finished call of t returned/raised
  history,         \* committed rows of sentiment_history, in insertion order
  preferences,     \* committed rows of preferences
  dbLock,          \* holder of the SQLite write lock
  latest_message,  \* MoodAwareAI.latest_message
  timers,          \* intervals of the started, not yet fired, Timers
  tick,            \* tick[i]: state of timer thread i
  sent,            \* messages handed to connection.privmsg by ticks
  sc_polarity,     \* polarity the scorer gave (ClassifySpec)
  sc_result        \* what analyze_sentiment returned for it

vars == <<pc, frame, result, history, preferences, dbLock, latest_message,
          timers, tick, sent, sc_polarity, sc_result>>

engineVars == <<pc, frame, result, history, preferences, dbLock, latest_message>>
tickVars   == <<timers, tick, sent>>
scVars     == <<sc_polarity, sc_result>>

\* ------------------------------------------------------------- SQLite model
\* Texts that SQLite converts to an integer without loss.
IntegerTexts == {"42", "7"}

\* Column affinity INTEGER / NUMERIC: a well-formed integer text is stored
\* as that integer, a bool is bound as the integer 0 or 1, anything else is
\* stored as it is.
IntegerAffinity(val) ==
  CASE val.t = "str" /\ val.v \in IntegerTexts -> PyInt(val.v)
    [] val.t = "bool" -> PyInt(IF val.v = "True" THEN "1" ELSE "0")
    [] OTHER -> val

\* Python's == on the values of the model: True == 1 and False == 0, and a
\* str never equals a number.
PyNumber(val) ==
  IF val.t = "bool" THEN PyInt(IF val.v = "True" THEN "1" ELSE "0") ELSE val

PyEq(a, b) == PyNumber(a) = PyNumber(b)

Ids(rows) == {rows[i].id : i \in 1..Len(rows)}

SetMax(S) == CHOOSE x \in S : \A y \in S : y <= x

\* id INTEGER PRIMARY KEY, no value given: one more than the largest id.
NextRowId(rows) == IF rows = <<>> THEN 1 ELSE SetMax(Ids(rows)) + 1

\* The row INSERT INTO sentiment_history (user_id, message, sentiment,
\* polarity) adds to the table `rows` (timestamp is not modelled).
HistoryRow(rows, user_id, message, sentiment, polarity) ==
  [id |-> NextRowId(rows), user_id |-> IntegerAffinity(user_id),
   message |-> message, sentiment |-> sentiment, polarity |-> polarity]

\* WriteLockFree without the lock: every connection writes at once.
WriteLockFree_Ignored == TRUE

\* A write statement starts only when no other connection holds the lock.
WriteLockFree == dbLock = "free"

\* ------------------------------------------------------- SentimentAnalyzer
\* blob.sentiment.polarity of the external scorer, on the texts of the model.
TextBlobPolarity(text) ==
  CASE text = "I love this!" -> 50
    [] text = "I hate this"  -> -50
    [] OTHER -> 0

\* Classify with the thresholds taken inclusively.
Classify_Inclusive(polarity) ==
  IF polarity >= PosThreshold THEN <<"Positive", polarity>>
  ELSE IF polarity <= NegThreshold THEN <<"Negative", polarity>>
  ELSE <<"Neutral", polarity>>

\* Lines 88-93: the label of a polarity, with the polarity.
Classify(polarity) ==
  IF polarity > PosThreshold THEN <<"Positive", polarity>>
  ELSE IF polarity < NegThreshold THEN <<"Negative", polarity>>
  ELSE <<"Neutral", polarity>>

analyze_sentiment(text) == Classify(TextBlobPolarity(text))

\* ------------------------------------------------------------- MoodAwareAI
InFlight == Cardinality({t \in Threads : pc[t] \in {"107", "76"}})

IdleFrame == None

\* LatestOf that keeps the message and the label but not the polarity.
LatestOf_NoPolarity(message, sentiment, polarity) == <<message, sentiment, 0>>

\* Line 108: the value stored in latest_message.
LatestOf(message, sentiment, polarity) == <<message, sentiment, polarity>>

\* AnalyzeMessage_ScoreRaises that masks the failure: the message is logged
\* and stored as Neutral.
AnalyzeMessage_ScoreRaises_Masked(t, message, user_id) ==
  /\ pc[t] = "idle"
  /\ message \notin Texts
  /\ Len(history) + InFlight < MaxHistory
  /\ history' = Append(history, HistoryRow(history, user_id, message, "Neutral", 0))
  /\ latest_message' = <<message, "Neutral", 0>>
  /\ result' = [result EXCEPT ![t] = <<"raise", "TypeError">>]
  /\ UNCHANGED <<pc, frame, preferences, dbLock>>
  /\ UNCHANGED <<tickVars, scVars>>

\* Line 106 raising: TextBlob(text) rejects a message that is not a str.
\* The exception leaves analyze_message; nothing else of the call runs.
AnalyzeMessage_ScoreRaises(t, message, user_id) ==
  /\ pc[t] = "idle"
  /\ message \notin Texts
  /\ result' = [result EXCEPT ![t] = <<"raise", "TypeError">>]
  /\ UNCHANGED <<pc, frame, history, preferences, dbLock, latest_message>>
  /\ UNCHANGED <<tickVars, scVars>>

\* AnalyzeMessage_Score that stores the latest message before the row is
\* logged.
AnalyzeMessage_Score_SetsFirst(t, message, user_id) ==
  /\ pc[t] = "idle"
  /\ message \in Texts
  /\ Len(history) + InFlight < MaxHistory
  /\ LET r == analyze_sentiment(message) IN
       /\ frame' = [frame EXCEPT ![t] =
                      [message |-> message, user_id |-> user_id,
                       sentiment |-> r[1], polarity |-> r[2], row |-> None]]
       /\ latest_message' = <<message, r[1], r[2]>>
  /\ pc' = [pc EXCEPT ![t] = "107"]
  /\ result' = [result EXCEPT ![t] = None]
  /\ UNCHANGED <<history, preferences, dbLock>>
  /\ UNCHANGED <<tickVars, scVars>>

\* Line 106: analyze_message is called and the message is scored.
AnalyzeMessage_Score(t, message, user_id) ==
  /\ pc[t] = "idle"
  /\ message \in Texts
  /\ Len(history) + InFlight < MaxHistory
  /\ LET r == analyze_sentiment(message) IN
       frame' = [frame EXCEPT ![t] =
                   [message |-> message, user_id |-> user_id,
                    sentiment |-> r[1], polarity |-> r[2], row |-> None]]
  /\ pc' = [pc EXCEPT ![t] = "107"]
  /\ result' = [result EXCEPT ![t] = None]
  /\ UNCHANGED <<history, preferences, dbLock, latest_message>>
  /\ UNCHANGED <<tickVars, scVars>>

\* Lines 71-75 of log_sentiment: connect and execute the INSERT. The
\* statement takes the write lock and the row exists in the transaction.
LogSentiment_Execute(t) ==
  /\ pc[t] = "107"
  /\ WriteLockFree
  /\ dbLock' = "held"
  /\ frame' = [frame EXCEPT ![t].row =
                 HistoryRow(history, frame[t].user_id, frame[t].message,
                            frame[t].sentiment, frame[t].polarity)]
  /\ pc' = [pc EXCEPT ![t] = "76"]
  /\ UNCHANGED <<result, history, preferences, latest_message>>
  /\ UNCHANGED <<tickVars, scVars>>

\* LogSentiment_Locked that swallows the exception: analyze_message goes on
\* to line 108 as if the row had been written.
LogSentiment_Locked_Swallowed(t) ==
  /\ pc[t] = "107"
  /\ dbLock # "free"
  /\ pc' = [pc EXCEPT ![t] = "108"]
  /\ UNCHANGED <<frame, result, history, preferences, dbLock, latest_message>>
  /\ UNCHANGED <<tickVars, scVars>>

\* Lines 71-75 when another connection keeps the lock past the busy
\* timeout: execute raises OperationalError (database is locked), which
\* leaves log_sentiment and analyze_message.
LogSentiment_Locked(t) ==
  /\ pc[t] = "107"
  /\ dbLock # "free"
  /\ pc' = [pc EXCEPT ![t] = "idle"]
  /\ frame' = [frame EXCEPT ![t] = IdleFrame]
  /\ result' = [result EXCEPT ![t] = <<"raise", "OperationalError">>]
  /\ UNCHANGED <<history, preferences, dbLock, latest_message>>
  /\ UNCHANGED <<tickVars, scVars>>

\* LogSentiment_Commit that replaces the table's rows by the new row.
LogSentiment_Commit_Replacing(t) ==
  /\ pc[t] = "76"
  /\ history' = <<frame[t].row>>
  /\ dbLock' = "free"
  /\ pc' = [pc EXCEPT ![t] = "108"]
  /\ UNCHANGED <<frame, result, preferences, latest_message>>
  /\ UNCHANGED <<tickVars, scVars>>

\* Lines 76-77: commit makes the row part of the table and frees the lock.
LogSentiment_Commit(t) ==
  /\ pc[t] = "76"
  /\ history' = Append(history, frame[t].row)
  /\ dbLock' = "free"
  /\ pc' = [pc EXCEPT ![t] = "108"]
  /\ UNCHANGED <<frame, result, preferences, latest_message>>
  /\ UNCHANGED <<tickVars, scVars>>

\* AnalyzeMessage_SetLatest that stores the row appended last, whoever
\* appended it.
AnalyzeMessage_SetLatest_LastRow(t) ==
  /\ pc[t] = "108"
  /\ latest_message' =
       LET last == history[Len(history)] IN
         <<last.message, last.sentiment, last.polarity>>
  /\ result' = [result EXCEPT ![t] =
                  <<"return", <<frame[t].sentiment, frame[t].polarity>>>>]
  /\ pc' = [pc EXCEPT ![t] = "idle"]
  /\ frame' = [frame EXCEPT ![t] = IdleFrame]
  /\ UNCHANGED <<history, preferences, dbLock>>
  /\ UNCHANGED <<tickVars, scVars>>

\* AnalyzeMessage_SetLatest that writes into a filled slot field by field:
\* this step writes the message and leaves the other two fields as they are.
AnalyzeMessage_SetLatest_FieldByField(t) ==
  /\ pc[t] = "108"
  /\ latest_message' =
       IF latest_message = None
       THEN <<frame[t].message, frame[t].sentiment, frame[t].polarity>>
       ELSE <<frame[t].message, latest_message[2], latest_message[3]>>
  /\ result' = [result EXCEPT ![t] =
                  <<"return", <<frame[t].sentiment, frame[t].polarity>>>>]
  /\ pc' = [pc EXCEPT ![t] = "idle"]
  /\ frame' = [frame EXCEPT ![t] = IdleFrame]
  /\ UNCHANGED <<history, preferences, dbLock>>
  /\ UNCHANGED <<tickVars, scVars>>

\* AnalyzeMessage_SetLatest that fills the slot only while it is empty.
AnalyzeMessage_SetLatest_FirstWins(t) ==
  /\ pc[t] = "108"
  /\ latest_message' =
       IF latest_message = None
       THEN <<frame[t].message, frame[t].sentiment, frame[t].polarity>>
       ELSE latest_message
  /\ result' = [result EXCEPT ![t] =
                  <<"return", <<frame[t].sentiment, frame[t].polarity>>>>]
  /\ pc' = [pc EXCEPT ![t] = "idle"]
  /\ frame' = [frame EXCEPT ![t] = IdleFrame]
  /\ UNCHANGED <<history, preferences, dbLock>>
  /\ UNCHANGED <<tickVars, scVars>>

\* Lines 108-109: store the latest message and return the classification.
AnalyzeMessage_SetLatest(t) ==
  /\ pc[t] = "108"
  /\ latest_message' = LatestOf(frame[t].message, frame[t].sentiment,
                                frame[t].polarity)
  /\ result' = [result EXCEPT ![t] =
                  <<"return", <<frame[t].sentiment, frame[t].polarity>>>>]
  /\ pc' = [pc EXCEPT ![t] = "idle"]
  /\ frame' = [frame EXCEPT ![t] = IdleFrame]
  /\ UNCHANGED <<history, preferences, dbLock>>
  /\ UNCHANGED <<tickVars, scVars>>

\* ------------------------------------------------------------- preferences
\* user_id INTEGER PRIMARY KEY is the rowid: it holds integers only.
IsRowid(user_id) == IntegerAffinity(user_id).t = "int"

\* The row the INSERT of set_user_preferences binds (lines 63-65), as the
\* columns' affinities store it.
PrefRow(user_id, enable_mood_checks, check_interval, mood_threshold) ==
  [user_id |-> IntegerAffinity(user_id),
   enable_mood_checks |-> IntegerAffinity(enable_mood_checks),
   check_interval |-> IntegerAffinity(check_interval),
   mood_threshold |-> mood_threshold]

\* INSERT OR REPLACE: the row with the same primary key goes, the new row
\* comes.
InsertOrReplace(rows, row) ==
  {r \in rows : r.user_id # row.user_id} \cup {row}

\* SELECT * FROM preferences WHERE user_id=?: the rows whose key equals the
\* parameter, compared under the column's affinity.
SelectPreferences(rows, user_id) ==
  {r \in rows : r.user_id = IntegerAffinity(user_id)}

\* The tuple fetchone() returns for a row.
RowTuple(r) ==
  <<r.user_id, r.enable_mood_checks, r.check_interval, r.mood_threshold>>

\* get_user_preferences that takes the first row of the table when the key
\* has none.
get_user_preferences_AnyRow(rows, user_id) ==
  IF rows = {}
  THEN {None}
  ELSE IF SelectPreferences(rows, user_id) = {}
  THEN {RowTuple(r) : r \in rows}
  ELSE {RowTuple(r) : r \in SelectPreferences(rows, user_id)}

\* Lines 52-57: what get_user_preferences can return on the table `rows`:
\* the tuple of the row of the key, or None when there is no such row.
get_user_preferences(rows, user_id) ==
  IF SelectPreferences(rows, user_id) = {}
  THEN {None}
  ELSE {RowTuple(r) : r \in SelectPreferences(rows, user_id)}

\* Lines 59-62: set_user_preferences is called; connect and cursor.
SetUserPreferences_Call(t, user_id, enable_mood_checks, check_interval, mood_threshold) ==
  /\ pc[t] = "idle"
  /\ frame' = [frame EXCEPT ![t] =
       [args |-> <<user_id, enable_mood_checks, check_interval, mood_threshold>>,
        row |-> None]]
  /\ pc' = [pc EXCEPT ![t] = "63"]
  /\ result' = [result EXCEPT ![t] = None]
  /\ UNCHANGED <<history, preferences, dbLock, latest_message>>
  /\ UNCHANGED <<tickVars, scVars>>

\* Lines 63-65: execute INSERT OR REPLACE; the statement takes the write
\* lock and the row waits in the transaction for the commit.
SetUserPreferences_Execute(t) ==
  /\ pc[t] = "63"
  /\ WriteLockFree
  /\ IsRowid(frame[t].args[1])
  /\ dbLock' = "held"
  /\ frame' = [frame EXCEPT ![t].row =
       PrefRow(frame[t].args[1], frame[t].args[2], frame[t].args[3],
               frame[t].args[4])]
  /\ pc' = [pc EXCEPT ![t] = "66"]
  /\ UNCHANGED <<result, history, preferences, latest_message>>
  /\ UNCHANGED <<tickVars, scVars>>

\* Lines 63-65 with a user_id that is no integer: the INSERT raises
\* IntegrityError (datatype mismatch). The exception leaves the function
\* before commit and close; the connection still has its transaction open
\* and keeps the write lock until it is finalized.
SetUserPreferences_Mismatch(t) ==
  /\ pc[t] = "63"
  /\ WriteLockFree
  /\ ~IsRowid(frame[t].args[1])
  /\ dbLock' = "leaked"
  /\ pc' = [pc EXCEPT ![t] = "idle"]
  /\ frame' = [frame EXCEPT ![t] = IdleFrame]
  /\ result' = [result EXCEPT ![t] = <<"raise", "IntegrityError">>]
  /\ UNCHANGED <<history, preferences, latest_message>>
  /\ UNCHANGED <<tickVars, scVars>>

\* Lines 63-65 when another connection keeps the lock past the busy timeout:
\* execute raises OperationalError (database is locked).
SetUserPreferences_Locked(t) ==
  /\ pc[t] = "63"
  /\ dbLock # "free"
  /\ pc' = [pc EXCEPT ![t] = "idle"]
  /\ frame' = [frame EXCEPT ![t] = IdleFrame]
  /\ result' = [result EXCEPT ![t] = <<"raise", "OperationalError">>]
  /\ UNCHANGED <<history, preferences, dbLock, latest_message>>
  /\ UNCHANGED <<tickVars, scVars>>

\* Lines 66-67: commit and close; set_user_preferences returns None.
SetUserPreferences_Commit(t) ==
  /\ pc[t] = "66"
  /\ preferences' = InsertOrReplace(preferences, frame[t].row)
  /\ dbLock' = "free"
  /\ pc' = [pc EXCEPT ![t] = "idle"]
  /\ frame' = [frame EXCEPT ![t] = IdleFrame]
  /\ result' = [result EXCEPT ![t] = <<"return", None>>]
  /\ UNCHANGED <<history, latest_message>>
  /\ UNCHANGED <<tickVars, scVars>>

\* The connection a raising call left behind is finalized: its transaction
\* is rolled back and the lock is free again.
ConnectionFinalized ==
  /\ dbLock = "leaked"
  /\ dbLock' = "free"
  /\ UNCHANGED <<pc, frame, result, history, preferences, latest_message>>
  /\ UNCHANGED <<tickVars, scVars>>

\* Lines 50-57: a call of get_user_preferences.
GetUserPreferences(t, user_id) ==
  /\ pc[t] = "idle"
  /\ \E r \in get_user_preferences(preferences, user_id) :
       result' = [result EXCEPT ![t] = <<"return", r>>]
  /\ UNCHANGED <<pc, frame, history, preferences, dbLock, latest_message>>
  /\ UNCHANGED <<tickVars, scVars>>

\* ------------------------------------------------------------ MoodCheckBot
\* Lines 171-176: the periodic response for a sentiment and a message; the
\* template and the text that fills it.
PeriodicResponse(sentiment, message) ==
  IF sentiment = "Positive"
  THEN <<"Great mood! Keep it up! (%s)", message>>
  ELSE IF sentiment = "Negative"
  THEN <<"Hang in there! We're here for you. (%s)", message>>
  ELSE <<"Neutral mood, feel free to talk to me! (%s)", message>>

NoTick == [pc |-> "none", response |-> None]

FreeTickIds == {i \in TickIds : tick[i].pc = "none"}

\* Line 162: threading.Timer(300, self.check_and_respond_periodically).start()
schedule_periodic_mood_check(ts) == Append(ts, Period)

\* The interval of the Timer started first has passed: its thread calls
\* check_and_respond_periodically.
TimerFires ==
  /\ timers # <<>>
  /\ FreeTickIds # {}
  /\ Len(sent) < MaxSent
  /\ LET i == CHOOSE x \in FreeTickIds : \A y \in FreeTickIds : x <= y IN
       tick' = [tick EXCEPT ![i] = [pc |-> "166", response |-> None]]
  /\ timers' = Tail(timers)
  /\ UNCHANGED <<sent, engineVars, scVars>>

\* Tick_Read that honours enable_mood_checks: it composes no response while
\* a stored row has the checks disabled.
Tick_Read_IfEnabled(i) ==
  /\ tick[i].pc = "166"
  /\ IF /\ latest_message # None
        /\ \A r \in preferences : r.enable_mood_checks # PyInt("0")
     THEN tick' = [tick EXCEPT ![i] =
            [pc |-> "178",
             response |-> PeriodicResponse(latest_message[2], latest_message[1])]]
     ELSE tick' = [tick EXCEPT ![i] = [pc |-> "180", response |-> None]]
  /\ UNCHANGED <<timers, sent, engineVars, scVars>>

\* Tick_Read that waits until no analyze_message call is in progress.
Tick_Read_WaitsForAnalyze(i) ==
  /\ tick[i].pc = "166"
  /\ \A t \in Threads : pc[t] \notin {"107", "76", "108"}
  /\ IF latest_message # None
     THEN tick' = [tick EXCEPT ![i] =
            [pc |-> "178",
             response |-> PeriodicResponse(latest_message[2], latest_message[1])]]
     ELSE tick' = [tick EXCEPT ![i] = [pc |-> "180", response |-> None]]
  /\ UNCHANGED <<timers, sent, engineVars, scVars>>

\* Tick_Read that starts the next Timer at once, before the read.
Tick_Read_SchedulesFirst(i) ==
  /\ tick[i].pc = "166"
  /\ timers' = schedule_periodic_mood_check(timers)
  /\ IF latest_message # None
     THEN tick' = [tick EXCEPT ![i] =
            [pc |-> "178",
             response |-> PeriodicResponse(latest_message[2], latest_message[1])]]
     ELSE tick' = [tick EXCEPT ![i] = [pc |-> "180", response |-> None]]
  /\ UNCHANGED <<sent, engineVars, scVars>>

\* Tick_Read without the test of line 167: a response is composed always.
Tick_Read_NoCheck(i) ==
  /\ tick[i].pc = "166"
  /\ tick' = [tick EXCEPT ![i] =
       [pc |-> "178",
        response |-> IF latest_message # None
                     THEN PeriodicResponse(latest_message[2], latest_message[1])
                     ELSE PeriodicResponse("Neutral", "None")]]
  /\ UNCHANGED <<timers, sent, engineVars, scVars>>

\* Lines 166-176: read the latest message; when there is one, compose the
\* response from that value.
Tick_Read(i) ==
  /\ tick[i].pc = "166"
  /\ IF latest_message # None
     THEN tick' = [tick EXCEPT ![i] =
            [pc |-> "178",
             response |-> PeriodicResponse(latest_message[2], latest_message[1])]]
     ELSE tick' = [tick EXCEPT ![i] = [pc |-> "180", response |-> None]]
  /\ UNCHANGED <<timers, sent, engineVars, scVars>>

\* Tick_Send that composes the response again from the slot as it is now.
Tick_Send_Rereads(i) ==
  /\ tick[i].pc = "178"
  /\ sent' = Append(sent, IF latest_message # None
                          THEN PeriodicResponse(latest_message[2], latest_message[1])
                          ELSE tick[i].response)
  /\ tick' = [tick EXCEPT ![i] = [pc |-> "180", response |-> None]]
  /\ UNCHANGED <<timers, engineVars, scVars>>

\* Line 178: privmsg hands the response to the connection.
Tick_Send(i) ==
  /\ tick[i].pc = "178"
  /\ sent' = Append(sent, tick[i].response)
  /\ tick' = [tick EXCEPT ![i] = [pc |-> "180", response |-> None]]
  /\ UNCHANGED <<timers, engineVars, scVars>>

\* Line 178 raising (not connected, message too long for the protocol):
\* the exception leaves check_and_respond_periodically and ends the thread.
Tick_SendRaises(i) ==
  /\ tick[i].pc = "178"
  /\ tick' = [tick EXCEPT ![i] = NoTick]
  /\ UNCHANGED <<timers, sent, engineVars, scVars>>

\* Line 180: schedule the next tick; the thread ends.
Tick_Reschedule(i) ==
  /\ tick[i].pc = "180"
  /\ timers' = schedule_periodic_mood_check(timers)
  /\ tick' = [tick EXCEPT ![i] = NoTick]
  /\ UNCHANGED <<sent, engineVars, scVars>>

\* ------------------------------------------------------------ specification
\* Keys and values of the preference calls: a nick, a numeric text, integers.
PrefKeys   == {PyStr("alice"), PyStr("42"), PyInt("42"), PyInt("7")}
PrefValues == {<<PyBool("True"), PyInt("300"), PyReal("0.5")>>,
               <<PyBool("False"), PyInt("60"), PyReal("0.1")>>}
EngineKeys   == {PyInt("42")}
EngineValues == {<<PyBool("False"), PyInt("60"), PyReal("0.1")>>}

\* The tables a run may find at start: CREATE TABLE IF NOT EXISTS keeps the
\* rows an earlier run of the program committed.
InitHistories ==
  {<<>>, <<HistoryRow(<<>>, PyStr("alice"), "I love this!", "Positive", 50)>>}

\* MoodAwareAI() (lines 98-102) and MoodCheckBot() (lines 126-137).
Init ==
  /\ pc = [t \in Threads |-> "idle"]
  /\ frame = [t \in Threads |-> IdleFrame]
  /\ result = [t \in Threads |-> None]
  /\ history \in InitHistories
  /\ preferences = {}
  /\ dbLock = "free"
  /\ latest_message = None
  /\ timers = schedule_periodic_mood_check(<<>>)
  /\ tick = [i \in TickIds |-> NoTick]
  /\ sent = <<>>
  /\ sc_polarity = 0
  /\ sc_result = None

\* setup_db that creates the tables anew.
setup_db_Recreates(prefs, hist) == <<{}, <<>>>>

\* Lines 29-48: CREATE TABLE IF NOT EXISTS leaves the rows of the tables
\* that exist as they are; the preferences rows and the history rows after it.
setup_db(prefs, hist) == <<prefs, hist>>

\* The process ends and the program is started again: the threads, the
\* timers and the open transactions of the old process are gone, the
\* database file stays; then MoodAwareAI() (lines 98-102) and
\* MoodCheckBot() (lines 126-137).
Restart ==
  /\ pc' = [t \in Threads |-> "idle"]
  /\ frame' = [t \in Threads |-> IdleFrame]
  /\ result' = [t \in Threads |-> None]
  /\ preferences' = setup_db(preferences, history)[1]
  /\ history' = setup_db(preferences, history)[2]
  /\ dbLock' = "free"
  /\ latest_message' = None
  /\ timers' = schedule_periodic_mood_check(<<>>)
  /\ tick' = [i \in TickIds |-> NoTick]
  /\ UNCHANGED <<sent, scVars>>

\* The engine and the scheduler: analyze calls, preference updates, ticks.
Next ==
  \/ \E t \in Threads, u \in Nicks : AnalyzeMessage_ScoreRaises(t, NonText, u)
  \/ \E t \in Threads, m \in Texts, u \in Nicks : AnalyzeMessage_Score(t, m, u)
  \/ \E t \in Threads : LogSentiment_Execute(t)
  \/ \E t \in Threads : LogSentiment_Locked(t)
  \/ \E t \in Threads : LogSentiment_Commit(t)
  \/ \E t \in Threads : AnalyzeMessage_SetLatest(t)
  \/ \E t \in Threads, k \in EngineKeys, v \in EngineValues :
       SetUserPreferences_Call(t, k, v[1], v[2], v[3])
  \/ \E t \in Threads : SetUserPreferences_Execute(t)
  \/ \E t \in Threads : SetUserPreferences_Locked(t)
  \/ \E t \in Threads : SetUserPreferences_Commit(t)
  \/ TimerFires
  \/ \E i \in TickIds : Tick_Read(i)
  \/ \E i \in TickIds : Tick_Send(i)
  \/ \E i \in TickIds : Tick_SendRaises(i)
  \/ \E i \in TickIds : Tick_Reschedule(i)
  \/ Restart

Spec == Init /\ [][Next]_vars

\* The same with one caller of analyze_message at a time, as when every
\* message comes from the one thread that runs the bot's event loop.
NoOtherAnalyze(t) ==
  \A o \in Threads \ {t} : pc[o] \notin {"107", "76", "108"}

SeqNext ==
  \/ \E t \in Threads, u \in Nicks : AnalyzeMessage_ScoreRaises(t, NonText, u)
  \/ \E t \in Threads, m \in Texts, u \in Nicks :
       NoOtherAnalyze(t) /\ AnalyzeMessage_Score(t, m, u)
  \/ \E t \in Threads : LogSentiment_Execute(t)
  \/ \E t \in Threads : LogSentiment_Locked(t)
  \/ \E t \in Threads : LogSentiment_Commit(t)
  \/ \E t \in Threads : AnalyzeMessage_SetLatest(t)
  \/ \E t \in Threads, k \in EngineKeys, v \in EngineValues :
       SetUserPreferences_Call(t, k, v[1], v[2], v[3])
  \/ \E t \in Threads : SetUserPreferences_Execute(t)
  \/ \E t \in Threads : SetUserPreferences_Locked(t)
  \/ \E t \in Threads : SetUserPreferences_Commit(t)
  \/ TimerFires
  \/ \E i \in TickIds : Tick_Read(i)
  \/ \E i \in TickIds : Tick_Send(i)
  \/ \E i \in TickIds : Tick_SendRaises(i)
  \/ \E i \in TickIds : Tick_Reschedule(i)
  \/ Restart

SeqSpec == Init /\ [][SeqNext]_vars

\* The preference store under concurrent callers.
PrefNext ==
  \/ \E t \in Threads, k \in PrefKeys, v \in PrefValues :
       SetUserPreferences_Call(t, k, v[1], v[2], v[3])
  \/ \E t \in Threads : SetUserPreferences_Execute(t)
  \/ \E t \in Threads : SetUserPreferences_Mismatch(t)
  \/ \E t \in Threads : SetUserPreferences_Locked(t)
  \/ \E t \in Threads : SetUserPreferences_Commit(t)
  \/ ConnectionFinalized
  \/ \E t \in Threads, k \in PrefKeys : GetUserPreferences(t, k)

PrefSpec == Init /\ [][PrefNext]_vars

\* analyze_sentiment's classification on every polarity the scorer can give.
PolarityRange == -100..100

ClassifyInit ==
  /\ pc = [t \in Threads |-> "idle"]
  /\ frame = [t \in Threads |-> IdleFrame]
  /\ result = [t \in Threads |-> None]
  /\ history = <<>>
  /\ preferences = {}
  /\ dbLock = "free"
  /\ latest_message = None
  /\ timers = schedule_periodic_mood_check(<<>>)
  /\ tick = [i \in TickIds |-> NoTick]
  /\ sent = <<>>
  /\ sc_polarity \in PolarityRange
  /\ sc_result = None

\* Lines 88-93 applied to the polarity of line 86.
AnalyzeSentiment_Classify ==
  /\ sc_result = None
  /\ sc_result' = Classify(sc_polarity)
  /\ UNCHANGED <<sc_polarity, engineVars, tickVars>>

ClassifyNext == AnalyzeSentiment_Classify

ClassifySpec == ClassifyInit /\ [][ClassifyNext]_vars

\* ------------------------------------------------------------------ claims
TickRunning == \E i \in TickIds : tick[i].pc # "none"

AnalyzeInProgress(t) == pc[t] \in {"107", "76", "108"}

IsPrefix(a, b) == Len(a) <= Len(b) /\ SubSeq(b, 1, Len(a)) = a

\* Thread t takes the step named by the two program counters.
Steps(t, from, to) == pc[t] = from /\ pc'[t] = to

\* Thread t takes line 108-109: analyze_message stores and returns.
StoresLatest(t) == Steps(t, "108", "idle") /\ result'[t] # None

\* C1: after every tick's processing, whether the delivery succeeded or
\* raised, the next tick is scheduled: at every moment a timer is pending or
\* a tick is being processed, so the chain of ticks never ends.
C1_NextTickScheduled == Len(timers) > 0 \/ TickRunning

\* C2: every commit of log_sentiment adds exactly one row whose id is
\* greater than every id assigned before, under any interleaving of the
\* callers, and the ids of the table are strictly increasing without
\* duplicates.
C2_IdsStrictlyIncreasing ==
  [][ /\ \A t \in Threads : Steps(t, "76", "108") =>
            /\ Len(history') = Len(history) + 1
            /\ \A i \in 1..Len(history) :
                 history'[Len(history')].id > history[i].id
      /\ \A i, j \in 1..Len(history') :
            i < j => history'[i].id < history'[j].id ]_vars

C2_Witness ==
  /\ Len(history) = 2
  /\ pc[1] = "108" /\ pc[2] = "108"

\* C3: when analyze_message returns, the value latest() gives right then
\* has the label and the polarity that the call returns.
C3_LatestMatchesReturn ==
  [][ \A t \in Threads : StoresLatest(t) =>
        /\ result'[t][1] = "return"
        /\ latest_message' # None
        /\ latest_message'[2] = result'[t][2][1]
        /\ latest_message'[3] = result'[t][2][2] ]_vars

C3_Witness ==
  /\ pc[1] = "idle"
  /\ result[1] # None /\ result[1][1] = "return"
  /\ result[1][2] = <<"Negative", -50>>
  /\ latest_message = <<"I hate this", "Negative", -50>>

\* C4: an analyze_message call in which the scorer raises appends nothing
\* to the history and leaves latest_message as it was.
C4_ScorerFailureNoEffect ==
  [][ \A t \in Threads :
        ( /\ pc[t] = "idle" /\ pc'[t] = "idle"
          /\ result'[t] # None
          /\ result'[t][1] = "raise" /\ result'[t][2] = "TypeError"
          /\ (result[t] = None \/ result[t][1] # "raise" \/ result[t][2] # "TypeError") )
        => (history' = history /\ latest_message' = latest_message) ]_vars

C4_Witness ==
  /\ result[1] # None
  /\ result[1][1] = "raise" /\ result[1][2] = "TypeError"
  /\ Len(history) = 1
  /\ latest_message = <<"I love this!", "Positive", 50>>

\* C5: with analyze_message calls made one after another, whenever no call
\* is in progress and the slot is filled, latest_message is the message,
\* label and polarity of the last row appended, whoever the user of that
\* call is; and a write of the slot leaves every earlier row in the history.
C5_LastWriteWins ==
  [][ /\ ( /\ \A t \in Threads : ~AnalyzeInProgress(t)'
           /\ latest_message' # None )
         => /\ Len(history') > 0
            /\ latest_message' = << history'[Len(history')].message,
                                    history'[Len(history')].sentiment,
                                    history'[Len(history')].polarity >>
      /\ latest_message' # latest_message => IsPrefix(history, history') ]_vars

C5_Witness ==
  /\ \A t \in Threads : pc[t] = "idle"
  /\ Len(history) = 2
  /\ history[1].user_id = PyStr("alice") /\ history[1].sentiment = "Positive"
  /\ history[2].user_id = PyStr("bob")
  /\ latest_message = <<"I hate this", "Negative", -50>>

\* C6: latest_message is empty until an analyze_message call stores into
\* it; a tick that reads the empty slot goes to rescheduling without sending
\* anything, and the rescheduling step starts one timer and sends nothing.
C6_EmptySendsNothing ==
  [][ /\ (latest_message = None /\ latest_message' # None)
         => \E t \in Threads : Steps(t, "108", "idle")
      /\ \A i \in TickIds :
           /\ (tick[i].pc = "166" /\ tick'[i].pc \notin {"166", "none"}
               /\ latest_message = None)
              => (tick'[i].pc = "180" /\ sent' = sent)
           /\ (tick[i].pc = "180" /\ tick'[i].pc # "180")
              => (sent' = sent /\ Len(timers') = Len(timers) + 1) ]_vars

C6_Witness ==
  /\ latest_message = None
  /\ \E i \in TickIds : tick[i].pc = "180"
  /\ sent = <<>>

\* C7: the label is Positive exactly for a polarity above 0.1, Negative
\* exactly below -0.1, Neutral otherwise (0.1 and -0.1 included), and the
\* polarity returned is the scorer's.
C7_Thresholds ==
  sc_result # None =>
    /\ (sc_result[1] = "Positive" <=> sc_polarity > 10)
    /\ (sc_result[1] = "Negative" <=> sc_polarity < -10)
    /\ (sc_result[1] = "Neutral" <=> (sc_polarity >= -10 /\ sc_polarity <= 10))
    /\ sc_result[2] = sc_polarity

C7_Witness == sc_polarity = 10 /\ sc_result = <<"Neutral", 10>>

\* A set_user_preferences call of thread t ends, by returning or by an
\* exception other than the lock timeout.
SetCallEnds(t) ==
  /\ pc[t] \in {"63", "66"} /\ pc'[t] = "idle"
  /\ ~(result'[t][1] = "raise" /\ result'[t][2] = "OperationalError")

TupleEq(a, b) == \A k \in 1..4 : PyEq(a[k], b[k])

\* C8: when set_user_preferences(u, prefs) has ended, get_user_preferences(u)
\* returns exactly prefs.
C8_RoundTrip ==
  [][ \A t \in Threads : SetCallEnds(t) =>
        \A r \in get_user_preferences(preferences', frame[t].args[1]) :
          r # None /\ TupleEq(r, frame[t].args) ]_vars

\* C9: the table has at most one row per user_id; when a set call has ended
\* the row of its key is its complete argument record; and the rows of the
\* other keys are the same as before.
C9_WholeRowLastWriteWins ==
  [][ /\ \A r1, r2 \in preferences' : r1.user_id = r2.user_id => r1 = r2
      /\ \A t \in Threads : SetCallEnds(t) =>
           /\ \E r \in preferences' :
                /\ r.user_id = IntegerAffinity(frame[t].args[1])
                /\ TupleEq(<<frame[t].args[1], r.enable_mood_checks,
                             r.check_interval, r.mood_threshold>>, frame[t].args)
           /\ \A r \in preferences :
                r.user_id # IntegerAffinity(frame[t].args[1]) => r \in preferences'
           /\ \A r \in preferences' :
                r.user_id # IntegerAffinity(frame[t].args[1]) => r \in preferences
    ]_vars

\* C10: the history is append-only: every step leaves the rows written so
\* far in place and unchanged, and only adds rows after them.
C10_AppendOnly == [][ IsPrefix(history, history') ]_vars

C10_Witness ==
  /\ Len(history) = 2
  /\ preferences # {}
  /\ sent # <<>>

\* C11: a log_sentiment call is attempted once per analyze_message call (so
\* at most twice): the call reaches line 107 only from its start, and when
\* the attempt does not take the write lock the call ends at once with the
\* OperationalError raised to its caller, nothing appended, the slot as it
\* was (the process itself ending apart).
C11_StorageFailureSurfaced ==
  [][ \A t \in Threads :
        /\ (pc'[t] = "107" /\ pc[t] # "107") => pc[t] = "idle"
        /\ (pc[t] = "107" /\ pc'[t] # "107" /\ pc'[t] # "76" /\ ~Restart) =>
             /\ pc'[t] = "idle"
             /\ result'[t] # None
             /\ result'[t][1] = "raise" /\ result'[t][2] = "OperationalError"
             /\ history' = history
             /\ latest_message' = latest_message ]_vars

C11_Witness ==
  /\ pc[1] = "idle"
  /\ result[1] # None
  /\ result[1][1] = "raise" /\ result[1][2] = "OperationalError"
  /\ pc[2] = "76"

\* C12: a restart of the process leaves latest_message empty and every row
\* of preferences and of the history in place; the slot stays empty until
\* an analyze_message call stores into it.
C12_RestartKeepsTables ==
  [][ /\ Restart => /\ latest_message' = None
                    /\ history' = history
                    /\ preferences' = preferences
      /\ (latest_message = None /\ latest_message' # None)
           => \E t \in Threads : Steps(t, "108", "idle") ]_vars

\* Something was sent, so the slot was filled once; it is empty: the process
\* was restarted; the rows are there.
C12_Witness ==
  /\ sent # <<>>
  /\ latest_message = None
  /\ Len(history) = 2
  /\ preferences # {}

\* No row of the table has the key user_id (as the key column holds it):
\* no set_user_preferences call for that user has been committed.
NeverSet(user_id) ==
  \A r \in preferences : r.user_id # IntegerAffinity(user_id)

\* C13: get_user_preferences for a user that has never been set returns
\* None, raises nothing, and leaves the table (and the lock) as they were.
C13_UnknownUserNotFound ==
  [][ \A t \in Threads, k \in PrefKeys :
        (GetUserPreferences(t, k) /\ NeverSet(k)) =>
          /\ result'[t][1] = "return"
          /\ result'[t][2] = None
          /\ preferences' = preferences
          /\ dbLock' = dbLock ]_vars

\* The table is empty, so no set call has returned: the call of thread 1
\* that returned None was a get, made while thread 2's row waits for commit.
C13_Witness ==
  /\ preferences = {}
  /\ pc[1] = "idle"
  /\ result[1] # None
  /\ result[1][1] = "return"
  /\ result[1][2] = None
  /\ pc[2] = "66"

\* The message, label and polarity of a row of the history.
RowLatest(row) == <<row.message, row.sentiment, row.polarity>>

\* C14: whenever no analyze_message call is in progress and the slot is
\* filled, also after overlapping calls, latest_message is the record with
\* the greatest id of the history (the row appended last).
C14_LatestIsGreatestId ==
  ( /\ \A t \in Threads : ~AnalyzeInProgress(t)
    /\ latest_message # None )
  => /\ Len(history) > 0
     /\ latest_message = RowLatest(history[Len(history)])

\* C14 as the code has it: the slot changes only when a call stores the
\* record it appended itself (or the process restarts), so the slot holds
\* the record of the call that stored last; that is the record with the
\* greatest id only when no other call appended between that call's append
\* and its store.
C14_LatestIsLastSet ==
  [][ /\ \A t \in Threads :
           StoresLatest(t) =>
             /\ \E k \in 1..Len(history) : history[k] = frame[t].row
             /\ latest_message' = RowLatest(frame[t].row)
             /\ (frame[t].row = history[Len(history)] =>
                   latest_message' = RowLatest(history'[Len(history')]))
      /\ latest_message' # latest_message =>
           \/ latest_message' = None
           \/ \E t \in Threads : StoresLatest(t) ]_vars

\* Two overlapping calls have completed and the slot holds the record of
\* the call that appended first.
C14_Witness ==
  /\ \A t \in Threads : pc[t] = "idle" /\ result[t] # None
                        /\ result[t][1] = "return"
  /\ Len(history) = 2
  /\ latest_message = RowLatest(history[1])
  /\ latest_message # RowLatest(history[2])

\* C15: a filled slot holds the message, label and polarity of a row that
\* is already in the history.
C15_LatestIsLogged ==
  latest_message # None =>
    \E k \in 1..Len(history) : RowLatest(history[k]) = latest_message

\* Thread 1 has appended its row and not yet stored it; the slot holds the
\* record of another call.
C15_Witness ==
  /\ pc[1] = "108"
  /\ latest_message # None
  /\ latest_message[1] # frame[1].message
  /\ Len(history) = 2

\* The template of the periodic message for a label.
TemplateOf(label) ==
  CASE label = "Positive" -> "Great mood! Keep it up! (%s)"
    [] label = "Negative" -> "Hang in there! We're here for you. (%s)"
    [] OTHER -> "Neutral mood, feel free to talk to me! (%s)"

\* C16: a tick that reads a filled slot composes its message from the label
\* and the text it read; the message stays that while the tick waits to
\* send, whatever is stored into the slot meanwhile; the send hands over
\* exactly that one message, and the tick's only other ends (privmsg
\* raising, the process ending) send nothing.
C16_SendsWhatWasRead ==
  [][ /\ \A i \in TickIds :
           /\ (tick[i].pc = "166" /\ tick'[i].pc = "178") =>
                /\ latest_message # None
                /\ tick'[i].response =
                     <<TemplateOf(latest_message[2]), latest_message[1]>>
           /\ (tick[i].pc = "178" /\ tick'[i].pc = "178") =>
                tick'[i].response = tick[i].response
           /\ (tick[i].pc = "178" /\ tick'[i].pc = "180") =>
                sent' = Append(sent, tick[i].response)
           /\ (tick[i].pc = "178" /\ tick'[i].pc \notin {"178", "180"}) =>
                sent' = sent
      /\ sent' # sent =>
           \E i \in TickIds : tick[i].pc = "178" /\ tick'[i].pc = "180" ]_vars

\* A tick has sent the message of the record it read while the slot holds
\* another record.
C16_Witness ==
  /\ \E i \in TickIds : tick[i].pc = "180"
  /\ Len(sent) = 1
  /\ sent[1] = <<"Great mood! Keep it up! (%s)", "I love this!">>
  /\ latest_message = <<"I hate this", "Negative", -50>>

\* A stored row disables the mood checks and asks for another interval.
ChecksDisabled ==
  \E r \in preferences :
    r.enable_mood_checks = PyInt("0") /\ r.check_interval = PyInt("60")

\* C17: what a tick does is a function of latest_message alone, whatever
\* the preferences table holds: it goes on to send exactly when the slot is
\* filled, and every timer ever pending has the interval 300; timers come
\* and go one at a time.
C17_PreferencesNotConsulted ==
  [][ /\ \A i \in TickIds :
           (tick[i].pc = "166" /\ tick'[i].pc \notin {"166", "none"}) =>
             tick'[i].pc = IF latest_message # None THEN "178" ELSE "180"
      /\ \A k \in 1..Len(timers) : timers[k] = 300
      /\ \A k \in 1..Len(timers') : timers'[k] = 300
      /\ timers' # timers =>
           \/ timers # <<>> /\ timers' = Tail(timers)
           \/ timers' = Append(timers, 300)
           \/ timers' = <<300>> ]_vars

\* With the checks disabled in the table and the slot filled and both
\* preference and analyze calls over, a tick has sent and is about to
\* schedule its successor.
C17_Witness ==
  /\ ChecksDisabled
  /\ \A t \in Threads : pc[t] = "idle"
  /\ \E i \in TickIds : tick[i].pc = "180"
  /\ Len(sent) = 1
  /\ latest_message # None

\* The triples analyze_message can store: message, label and polarity of
\* one call.
CompleteRecords ==
  {<<m, analyze_sentiment(m)[1], analyze_sentiment(m)[2]>> : m \in Texts}

\* C18: the slot is empty or holds the complete triple of one call, and
\* what a tick has read and composed comes from one such triple: never the
\* message of one call with the label or polarity of another.
C18_NoPartialRecord ==
  /\ latest_message = None \/ latest_message \in CompleteRecords
  /\ \A i \in TickIds :
       tick[i].response # None =>
         \E rec \in CompleteRecords :
           tick[i].response = <<TemplateOf(rec[2]), rec[1]>>

\* A tick holds what it read and is about to send while a call with the
\* other message is about to overwrite the slot.
C18_Witness ==
  /\ \E i \in TickIds :
       /\ tick[i].pc = "178"
       /\ latest_message # None
       /\ tick[i].response[2] = latest_message[1]
  /\ pc[1] = "108"
  /\ latest_message # None
  /\ frame[1].message # latest_message[1]

\* The steps of a call of analyze_message after the scoring, and the steps
\* of a tick short of a failure.
AnalyzeStep(t) ==
  \/ LogSentiment_Execute(t)
  \/ LogSentiment_Commit(t)
  \/ AnalyzeMessage_SetLatest(t)

TickStep(i) == Tick_Read(i) \/ Tick_Send(i) \/ Tick_Reschedule(i)

\* No other thread is inside a write transaction.
NoOtherWriter(t) == \A u \in Threads \ {t} : pc[u] \notin {"76", "66"}

\* C19: a call of analyze_message in progress can take its next step
\* wherever the ticks are, unless another caller's write transaction holds
\* the database; a tick in progress can take its next step wherever the
\* calls are; a due Timer can fire. So no state with something in progress
\* is a deadlock.
C19_NeverBlocked ==
  /\ \A t \in Threads :
       (AnalyzeInProgress(t) /\ NoOtherWriter(t)) => ENABLED AnalyzeStep(t)
  /\ \A t \in Threads :
       (pc[t] = "107" /\ ~NoOtherWriter(t)) => ENABLED LogSentiment_Locked(t)
  /\ \A i \in TickIds : tick[i].pc # "none" => ENABLED TickStep(i)
  /\ (timers # <<>> /\ Len(sent) < MaxSent) => ENABLED TimerFires

\* A tick is about to read while one call is inside its transaction and
\* the other waits to log.
C19_Witness ==
  /\ \E i \in TickIds : tick[i].pc = "166"
  /\ pc[1] = "76"
  /\ pc[2] = "107"

\* The ticks being processed.
RunningTicks == {i \in TickIds : tick[i].pc # "none"}

\* C20: at most one tick is pending or being processed; a Timer is added
\* only by the last step of a tick (line 180, after the read and the send)
\* or by the construction of the bot.
C20_OneTickAtATime ==
  [][ /\ Len(timers) + Cardinality(RunningTicks) <= 1
      /\ Len(timers') > Len(timers) =>
           \/ \E i \in TickIds :
                /\ tick[i].pc = "180"
                /\ tick' = [tick EXCEPT ![i] = NoTick]
                /\ timers' = Append(timers, 300)
           \/ /\ \A i \in TickIds : tick'[i] = NoTick
              /\ \A t \in Threads : pc'[t] = "idle"
              /\ latest_message' = None
              /\ timers' = <<300>> ]_vars

\* The second tick of the chain is being processed, no Timer is pending.
C20_Witness ==
  /\ Cardinality(RunningTicks) = 1
  /\ \E i \in TickIds : tick[i].pc = "178"
  /\ timers = <<>>
  /\ Len(sent) = 1

====
